---- MODULE Spec2Model ----
(***************************************************************************)
(* Model of timesketch/lib/analyzers/sigma_tagger.py: SigmaPlugin.run      *)
(* (the batch loop over the Sigma rules with its one retry after a         *)
(* transport error) and SigmaPlugin.run_sigma_rule (the per-event tagging  *)
(* with the split of the tag list into TTP tags and ordinary tags).        *)
(***************************************************************************)
EXTENDS Integers, Sequences, FiniteSets, TLC

\* ------------------------------------------------------------------ bounds
\* at most MaxRules rules, with at most MaxTags tags in all
MaxRules == 3
MaxTags == 2
\* at most MaxEvents events in the store
MaxEvents == 2
\* the rules and the events of a run are at most MaxScope together
MaxScope == 3

\* --------------------------------------------------------------- constants
\* default of current_app.config.get('SIGMA_TAG_DELAY', 15)
DefaultDelay == 15
\* the debug line is logged every tenth rule
DebugEvery == 10

\* -------------------------------------------------------------------- tags
\* A tag is a string, modelled as its sequence of characters.
AttackPrefix == <<"a", "t", "t", "a", "c", "k", ".">>
CarPrefix == <<"c", "a", "r", ".">>

TagAttack == AttackPrefix \o <<"t", "1">>
TagCar == CarPrefix \o <<"x">>
TagSusp == <<"s", "u", "s", "p">>

Tags == {TagAttack, TagCar, TagSusp}

\* str.startswith(prefix)
StartsWith(s, p) == Len(s) >= Len(p) /\ SubSeq(s, 1, Len(p)) = p

\* tag.startswith(('attack.', 'car.'))
IsTechnique(tag) == StartsWith(tag, AttackPrefix) \/ StartsWith(tag, CarPrefix)

\* All sequences over S of length at most n.
RECURSIVE SeqsUpTo(_, _)
SeqsUpTo(S, n) ==
    IF n = 0 THEN {<<>>}
    ELSE LET shorter == SeqsUpTo(S, n - 1)
         IN  shorter \cup {Append(s, x) : s \in {t \in shorter : Len(t) = n - 1}, x \in S}

TagLists == SeqsUpTo(Tags, MaxTags)

\* The value None of Python, where a string is expected.
None == "None"

\* What get_all_sigma_rules() returns: None, or a list of rules.
NoRules == [is_none |-> TRUE, list |-> <<>>]
RuleList(l) == [is_none |-> FALSE, list |-> l]

\* The number of tags of a list of tag lists.
RECURSIVE TotalLen(_)
TotalLen(tl) ==
    IF tl = <<>> THEN 0 ELSE Len(Head(tl)) + TotalLen(Tail(tl))

\* The rule sets the rule source can return: a list of at most MaxRules
\* rules with at most MaxTags tags in all, each rule with a file name
\* unique in the list (its position) and a tag list. The es_query of a
\* rule is opaque: what it matches is decided by the store.
RuleSets ==
    UNION {{tl \in [1..n -> TagLists] : TotalLen(tl) <= MaxTags} :
           n \in 0..MaxRules}

MkRules(tl) == [i \in 1..Len(tl) |-> [file_name |-> i, tags |-> tl[i]]]

\* ----------------------------------------------------------- list helpers
\* list.remove(x): removes the first occurrence of x.
RECURSIVE RemoveFirst(_, _)
RemoveFirst(l, x) ==
    IF l = <<>> THEN <<>>
    ELSE IF Head(l) = x THEN Tail(l)
    ELSE <<Head(l)>> \o RemoveFirst(Tail(l), x)

Range(s) == {s[i] : i \in 1..Len(s)}

\* list(set(l)): the elements of l, each once (order of first occurrence).
RECURSIVE ListSet(_)
ListSet(l) ==
    IF l = <<>> THEN <<>>
    ELSE LET front == ListSet(SubSeq(l, 1, Len(l) - 1))
             last == l[Len(l)]
         IN  IF last \in Range(front) THEN front ELSE Append(front, last)

NoDup(s) == \A i, j \in 1..Len(s) : s[i] = s[j] => i = j

\* The loop `for tag in tag_list` of run_sigma_rule: the list iterator
\* is at index i (1-based) of the list as it is now; a TTP tag is appended
\* to ts_ttp and removed from the list that is being iterated.
RECURSIVE ScanTags(_, _, _)
ScanTags(ts_ttp, tag_list, i) ==
    IF i > Len(tag_list) THEN [ts_ttp |-> ts_ttp, tag_list |-> tag_list]
    ELSE IF IsTechnique(tag_list[i])
         THEN ScanTags(Append(ts_ttp, tag_list[i]),
                       RemoveFirst(tag_list, tag_list[i]), i + 1)
         ELSE ScanTags(ts_ttp, tag_list, i + 1)

\* Event.add_tags as the store applies it: union with the tags the event
\* has, each tag once.
AddTags(existing, new) == ListSet(existing \o new)

\* ------------------------------------------------------------------- state
VARIABLES
    rule_source,            \* what get_all_sigma_rules() returns
    run,                    \* 1 in the first call of run(), 2 in the second
    first_run,              \* history: what the first call of run() left
    config,                 \* current_app.config as the handler reads it,
                            \* no key outside the handler
    store,                  \* event store: committed source of every event
    pc,                     \* position of run()
    sigma_rules,            \* run: the rule list (tag lists are mutable)
    tags_applied,           \* run: file_name -> count
    sigma_rule_counter,     \* run
    problem_strings,        \* run: file names of the '* name' bullets
    output,                 \* run: the returned lines, <<>> before the return
    rule_idx,               \* run: position of the for loop
    attempt,                \* 1: call in the try body, 2: call in the handler
    events,                 \* run_sigma_rule: events the stream still yields
    tagged_events_counter,  \* run_sigma_rule
    pending,                \* the event being tagged, changes not committed
    exc,                    \* the exception that left run(), or None
    invocations,            \* history: per rule, its run_sigma_rule calls
    sleep_time,             \* run: the delay read in the handler, 0 outside it
    sleeps,                 \* history: per rule, the number of time.sleep calls
    log,                    \* history: logger.error / logger.debug calls
    views                   \* history: add_sigma_match_view arguments

vars == <<rule_source, run, first_run, config, store, pc, sigma_rules, tags_applied,
          sigma_rule_counter, problem_strings, output, rule_idx, attempt,
          events, tagged_events_counter, pending, exc, invocations,
          sleep_time, sleeps, log, views>>

NoPending == [event |-> 0, ts_sigma_rule |-> <<>>, ts_ttp |-> <<>>,
              set_ttp |-> FALSE, add_tags |-> <<>>]

EmptySource == [ts_sigma_rule |-> <<>>, ts_ttp |-> <<>>, tag |-> <<>>]

\* current_app.config: the keys set, here SIGMA_TAG_DELAY alone or no key.
NoConfig == [k \in {} |-> 0]
Configs == {NoConfig, [k \in {"SIGMA_TAG_DELAY"} |-> 1]}

NoFirstRun == [store |-> <<>>, output |-> <<>>, matched |-> <<>>]

\* A run of three rules over two events, the first rule with one ordinary
\* tag: one input beyond MaxScope, the same whatever the bounds are.
ThreeRules == RuleList(MkRules(<<<<TagSusp>>, <<>>, <<>>>>))

Init ==
    /\ \/ /\ rule_source \in
                {NoRules} \cup {RuleList(MkRules(tl)) : tl \in RuleSets}
          /\ \E n \in 0..MaxEvents :
               /\ Len(rule_source.list) + n <= MaxScope
               /\ store = [e \in 1..n |-> EmptySource]
       \/ /\ rule_source = ThreeRules
          /\ store = [e \in 1..2 |-> EmptySource]
    /\ run = 1
    /\ first_run = NoFirstRun
    /\ config = NoConfig
    /\ pc = "start"
    /\ sigma_rules = RuleList(<<>>)
    /\ tags_applied = <<>>
    /\ sigma_rule_counter = 0
    /\ problem_strings = <<>>
    /\ output = <<>>
    /\ rule_idx = 0
    /\ attempt = 0
    /\ events = <<>>
    /\ tagged_events_counter = 0
    /\ pending = NoPending
    /\ exc = None
    /\ invocations = <<>>
    /\ sleep_time = 0
    /\ sleeps = <<>>
    /\ log = <<>>
    /\ views = <<>>

\* ------------------------------------------------------- run(): lines 67-73
\* tags_applied = {}, sigma_rule_counter = 0, the rule source is read and
\* the error is logged when it returned None.
GetRules ==
    /\ pc = "start"
    /\ sigma_rules' = rule_source
    /\ log' = IF rule_source.is_none THEN Append(log, <<"no_rules">>) ELSE log
    /\ invocations' = [i \in 1..Len(rule_source.list) |-> <<>>]
    /\ sleeps' = [i \in 1..Len(rule_source.list) |-> 0]
    /\ pc' = "loop"
    /\ UNCHANGED <<rule_source, run, first_run, config, sleep_time, store,
                   tags_applied, sigma_rule_counter, problem_strings, output,
                   rule_idx, attempt, events, tagged_events_counter, pending,
                   exc, views>>

\* `for rule in sigma_rules` with sigma_rules = None: a TypeError, raised
\* outside every try block of run().
IterateNone ==
    /\ pc = "loop"
    /\ sigma_rules.is_none
    /\ exc' = "TypeError"
    /\ pc' = "raised"
    /\ UNCHANGED <<rule_source, run, first_run, config, sleep_time, store,
                   sigma_rules, tags_applied, sigma_rule_counter,
                   problem_strings, output, rule_idx, attempt, events,
                   tagged_events_counter, pending, invocations, sleeps, log,
                   views>>

\* A new call of run_sigma_rule for rule i is recorded in the history.
StartInvocation(inv, i) ==
    [inv EXCEPT ![i] = Append(@, [result |-> "running", commits |-> 0])]

EndInvocation(inv, i, result) ==
    [inv EXCEPT ![i] = [@ EXCEPT ![Len(@)].result = result]]

\* tags_applied[name] = 0
SetZero(applied, name) ==
    [k \in DOMAIN applied \cup {name} |-> IF k = name THEN 0 ELSE applied[k]]

\* tags_applied[name] += n
AddCount(applied, name, n) == [applied EXCEPT ![name] = @ + n]

\* ForRule with the bug of iterating the list last rule first.
ForRule_LastFirst ==
    /\ pc = "loop"
    /\ ~sigma_rules.is_none
    /\ \/ rule_idx = 0 /\ Len(sigma_rules.list) > 0
       \/ rule_idx > 1
    /\ rule_idx' = IF rule_idx = 0 THEN Len(sigma_rules.list) ELSE rule_idx - 1
    /\ tags_applied' = SetZero(tags_applied, sigma_rules.list[rule_idx'].file_name)
    /\ sigma_rule_counter' = sigma_rule_counter + 1
    /\ attempt' = 1
    /\ invocations' = StartInvocation(invocations, rule_idx')
    /\ pc' = "call"
    /\ UNCHANGED <<rule_source, run, first_run, config, sleep_time, store,
                   sigma_rules, problem_strings, output, events,
                   tagged_events_counter, pending, exc, sleeps, log, views>>

\* Lines 75-79: the next rule of the list; its count is set to 0, the rule
\* counter is incremented and run_sigma_rule is called in the try body.
ForRule ==
    /\ pc = "loop"
    /\ ~sigma_rules.is_none
    /\ rule_idx < Len(sigma_rules.list)
    /\ rule_idx' = rule_idx + 1
    /\ tags_applied' = SetZero(tags_applied, sigma_rules.list[rule_idx'].file_name)
    /\ sigma_rule_counter' = sigma_rule_counter + 1
    /\ attempt' = 1
    /\ invocations' = StartInvocation(invocations, rule_idx')
    /\ pc' = "call"
    /\ UNCHANGED <<rule_source, run, first_run, config, sleep_time, store,
                   sigma_rules, problem_strings, output, events,
                   tagged_events_counter, pending, exc, sleeps, log, views>>

\* ------------------------------------------- run_sigma_rule(): lines 38-58
\* The streams the store can answer a query with: any of the events, each
\* once, in the order of the store.
RECURSIVE SetToSeq(_)
SetToSeq(S) ==
    IF S = {} THEN <<>>
    ELSE LET m == CHOOSE x \in S : \A y \in S : x <= y
         IN  <<m>> \o SetToSeq(S \ {m})

Streams(all) == {SetToSeq(S) : S \in SUBSET all}

\* Lines 38-41: the counter is 0 and the query is sent. In the second call
\* of run() the store is otherwise unchanged: the query of a rule matches
\* the events it matched in the first.
EventStream ==
    /\ pc = "call"
    /\ IF run = 1
       THEN \E stream \in Streams(DOMAIN store) : events' = stream
       ELSE events' = first_run.matched[rule_idx]
    /\ tagged_events_counter' = 0
    /\ pending' = NoPending
    /\ pc' = "stream"
    /\ UNCHANGED <<rule_source, run, first_run, config, sleep_time, store,
                   sigma_rules, tags_applied, sigma_rule_counter,
                   problem_strings, output, rule_idx, attempt, exc,
                   invocations, sleeps, log, views>>

\* Reconcile with the bug of writing the lists as appended to, without
\* list(set(...)).
Reconcile_NoDedup(source, rule_name, tag_list) ==
    LET ts_sigma_rules == Append(source.ts_sigma_rule, rule_name)
        scan == ScanTags(source.ts_ttp, tag_list, 1)
    IN  [ts_sigma_rule |-> ts_sigma_rules,
         add_tags |-> scan.tag_list,
         set_ttp |-> Len(scan.ts_ttp) > 0,
         ts_ttp |-> scan.ts_ttp,
         tag_list |-> scan.tag_list]

\* Reconcile with the bug of writing the rule's name alone, not the names
\* the event held with it.
Reconcile_Overwrites(source, rule_name, tag_list) ==
    LET scan == ScanTags(source.ts_ttp, tag_list, 1)
    IN  [ts_sigma_rule |-> <<rule_name>>,
         add_tags |-> scan.tag_list,
         set_ttp |-> Len(scan.ts_ttp) > 0,
         ts_ttp |-> IF Len(scan.ts_ttp) > 0 THEN ListSet(scan.ts_ttp) ELSE <<>>,
         tag_list |-> scan.tag_list]

\* Lines 43-55 for one event: what add_attributes and add_tags are given.
\* source is the event's source, rule_name the file name, tag_list the
\* list object of the rule; the result holds the list as the loop leaves it.
Reconcile(source, rule_name, tag_list) ==
    LET ts_sigma_rules == Append(source.ts_sigma_rule, rule_name)
        scan == ScanTags(source.ts_ttp, tag_list, 1)
    IN  [ts_sigma_rule |-> ListSet(ts_sigma_rules),
         add_tags |-> scan.tag_list,
         set_ttp |-> Len(scan.ts_ttp) > 0,
         ts_ttp |-> IF Len(scan.ts_ttp) > 0 THEN ListSet(scan.ts_ttp) ELSE <<>>,
         tag_list |-> scan.tag_list]

\* TagEvent with the bug of counting the event before its commit.
TagEvent_CountsEarly ==
    /\ pc = "stream"
    /\ events # <<>>
    /\ LET e == Head(events)
           r == Reconcile(store[e], sigma_rules.list[rule_idx].file_name,
                          sigma_rules.list[rule_idx].tags)
       IN  /\ pending' = [event |-> e, ts_sigma_rule |-> r.ts_sigma_rule,
                          ts_ttp |-> r.ts_ttp, set_ttp |-> r.set_ttp,
                          add_tags |-> r.add_tags]
           /\ sigma_rules' = [sigma_rules EXCEPT !.list[rule_idx].tags = r.tag_list]
    /\ events' = Tail(events)
    /\ tagged_events_counter' = tagged_events_counter + 1
    /\ pc' = "commit"
    /\ UNCHANGED <<rule_source, run, first_run, config, sleep_time, store,
                   tags_applied, sigma_rule_counter, problem_strings, output,
                   rule_idx, attempt, exc, invocations, sleeps, log, views>>

\* Lines 42-55: the next event of the stream; its attributes and tags are
\* set on the event object, nothing is committed yet. The tag list of the
\* rule is the list the loop iterated and removed from.
TagEvent ==
    /\ pc = "stream"
    /\ events # <<>>
    /\ LET e == Head(events)
           r == Reconcile(store[e], sigma_rules.list[rule_idx].file_name,
                          sigma_rules.list[rule_idx].tags)
       IN  /\ pending' = [event |-> e, ts_sigma_rule |-> r.ts_sigma_rule,
                          ts_ttp |-> r.ts_ttp, set_ttp |-> r.set_ttp,
                          add_tags |-> r.add_tags]
           /\ sigma_rules' = [sigma_rules EXCEPT !.list[rule_idx].tags = r.tag_list]
    /\ events' = Tail(events)
    /\ pc' = "commit"
    /\ UNCHANGED <<rule_source, run, first_run, config, sleep_time, store,
                   tags_applied, sigma_rule_counter, problem_strings, output,
                   rule_idx, attempt, tagged_events_counter, exc, invocations,
                   sleeps, log, views>>

\* event.commit(): the attributes and tags set since the last commit
\* reach the store as one write.
CommitEvent(source, p) ==
    [ts_sigma_rule |-> p.ts_sigma_rule,
     ts_ttp |-> IF p.set_ttp THEN p.ts_ttp ELSE source.ts_ttp,
     tag |-> AddTags(source.tag, p.add_tags)]

\* Lines 56-57: commit, then the counter is incremented.
Commit ==
    /\ pc = "commit"
    /\ store' = [store EXCEPT ![pending.event] = CommitEvent(@, pending)]
    /\ tagged_events_counter' = tagged_events_counter + 1
    /\ invocations' = [invocations EXCEPT ![rule_idx] =
                          [@ EXCEPT ![Len(@)].commits = @ + 1]]
    /\ pending' = NoPending
    /\ pc' = "stream"
    /\ UNCHANGED <<rule_source, run, first_run, config, sleep_time,
                   sigma_rules, tags_applied, sigma_rule_counter,
                   problem_strings, output, rule_idx, attempt, events, exc,
                   sleeps, log, views>>

\* Line 58 and lines 82-85 (first call) or 101 (call in the handler): the
\* stream is drained, the counter is returned and added to the rule's count.
Return ==
    /\ pc = "stream"
    /\ events = <<>>
    /\ tags_applied' = AddCount(tags_applied, sigma_rules.list[rule_idx].file_name,
                                tagged_events_counter)
    /\ log' = IF attempt = 1 /\ sigma_rule_counter % DebugEvery = 0
              THEN Append(log, <<"debug", sigma_rule_counter, Len(sigma_rules.list)>>)
              ELSE log
    /\ invocations' = EndInvocation(invocations, rule_idx, "ok")
    /\ tagged_events_counter' = 0
    /\ pc' = "loop"
    /\ UNCHANGED <<rule_source, run, first_run, config, sleep_time, store,
                   sigma_rules, sigma_rule_counter, problem_strings, output,
                   rule_idx, attempt, events, pending, exc, sleeps, views>>

\* The places of run_sigma_rule where a call to the store can raise: the
\* query, the fetch of the next event, and the calls on the event up to
\* and including its commit.
InExecutor == pc \in {"call", "stream", "commit"}

\* A call to the store raises. The store raises in the first call of run();
\* the second call is followed for the case in which it does not.
Raises == InExecutor /\ run = 1

\* An exception leaves run_sigma_rule: its frame (the stream, the counter,
\* the event object with what was set on it) is dropped.
Unwind ==
    /\ events' = <<>>
    /\ tagged_events_counter' = 0
    /\ pending' = NoPending

\* dict.get with the bug of not reading the key: the default always.
Get_DefaultAlways(dict, key, default) == default

\* dict.get(key, default)
Get(dict, key, default) == IF key \in DOMAIN dict THEN dict[key] ELSE default

\* ExceptTransportError with the bug of counting what the failed call had
\* tagged: the events of the first call and of the retry are both counted.
ExceptTransportError_KeepsCount ==
    /\ Raises
    /\ attempt = 1
    /\ config' \in Configs
    /\ sleep_time' = Get(config', "SIGMA_TAG_DELAY", DefaultDelay)
    /\ log' = Append(log, <<"timeout", sigma_rules.list[rule_idx].file_name>>)
    /\ invocations' = EndInvocation(invocations, rule_idx, "transport")
    /\ tags_applied' = AddCount(tags_applied,
                                sigma_rules.list[rule_idx].file_name,
                                invocations[rule_idx][1].commits)
    /\ Unwind
    /\ pc' = "sleep"
    /\ UNCHANGED <<rule_source, run, first_run, store, sigma_rules,
                   sigma_rule_counter, problem_strings, output, rule_idx,
                   attempt, exc, sleeps, views>>

\* Lines 86-94: elasticsearch.TransportError raised by the call in the try
\* body. The delay is read from the configuration as it is at this moment
\* and the error is logged.
ExceptTransportError ==
    /\ Raises
    /\ attempt = 1
    /\ config' \in Configs
    /\ sleep_time' = Get(config', "SIGMA_TAG_DELAY", DefaultDelay)
    /\ log' = Append(log, <<"timeout", sigma_rules.list[rule_idx].file_name>>)
    /\ invocations' = EndInvocation(invocations, rule_idx, "transport")
    /\ Unwind
    /\ pc' = "sleep"
    /\ UNCHANGED <<rule_source, run, first_run, store, sigma_rules,
                   tags_applied, sigma_rule_counter, problem_strings, output,
                   rule_idx, attempt, exc, sleeps, views>>

\* Lines 97-98: time.sleep(sleep_time), then run_sigma_rule is called again
\* for the same rule, inside the handler.
Sleep ==
    /\ pc = "sleep"
    /\ sleeps' = [sleeps EXCEPT ![rule_idx] = @ + 1]
    /\ sleep_time' = 0
    /\ config' = NoConfig
    /\ attempt' = 2
    /\ invocations' = StartInvocation(invocations, rule_idx)
    /\ pc' = "call"
    /\ UNCHANGED <<rule_source, run, first_run, store, sigma_rules,
                   tags_applied, sigma_rule_counter, problem_strings, output,
                   rule_idx, events, tagged_events_counter, pending, exc, log,
                   views>>

\* ExceptOther with the bug of handling every exception as the transport
\* error is handled: the run sleeps and calls the rule again.
ExceptOther_Retries ==
    /\ Raises
    /\ attempt = 1
    /\ config' \in Configs
    /\ sleep_time' = Get(config', "SIGMA_TAG_DELAY", DefaultDelay)
    /\ log' = Append(log, <<"timeout", sigma_rules.list[rule_idx].file_name>>)
    /\ invocations' = EndInvocation(invocations, rule_idx, "other")
    /\ Unwind
    /\ pc' = "sleep"
    /\ UNCHANGED <<rule_source, run, first_run, store, sigma_rules,
                   tags_applied, sigma_rule_counter, problem_strings, output,
                   rule_idx, attempt, exc, sleeps, views>>

\* ExceptOther with the bug of counting what the failed call had tagged.
ExceptOther_KeepsCount ==
    /\ Raises
    /\ attempt = 1
    /\ log' = Append(log, <<"problem", sigma_rules.list[rule_idx].file_name>>)
    /\ problem_strings' = Append(problem_strings,
                                 sigma_rules.list[rule_idx].file_name)
    /\ invocations' = EndInvocation(invocations, rule_idx, "other")
    /\ tags_applied' = AddCount(tags_applied,
                                sigma_rules.list[rule_idx].file_name,
                                invocations[rule_idx][1].commits)
    /\ Unwind
    /\ pc' = "loop"
    /\ UNCHANGED <<rule_source, run, first_run, config, sleep_time, store,
                   sigma_rules, sigma_rule_counter, output, rule_idx, attempt,
                   exc, sleeps, views>>

\* Lines 104-110: any other exception raised by the call in the try body:
\* logged, the rule is added to the problem strings, next rule.
ExceptOther ==
    /\ Raises
    /\ attempt = 1
    /\ log' = Append(log, <<"problem", sigma_rules.list[rule_idx].file_name>>)
    /\ problem_strings' = Append(problem_strings,
                                 sigma_rules.list[rule_idx].file_name)
    /\ invocations' = EndInvocation(invocations, rule_idx, "other")
    /\ Unwind
    /\ pc' = "loop"
    /\ UNCHANGED <<rule_source, run, first_run, config, sleep_time, store,
                   sigma_rules, tags_applied, sigma_rule_counter, output,
                   rule_idx, attempt, exc, sleeps, views>>

\* Line 98 raises: the call is in the handler of TransportError, where no
\* except clause of the try statement applies; the exception leaves run().
ExceptInHandler ==
    /\ Raises
    /\ attempt = 2
    /\ \E cls \in {"transport", "other"} :
         /\ exc' = cls
         /\ invocations' = EndInvocation(invocations, rule_idx, cls)
    /\ Unwind
    /\ pc' = "raised"
    /\ UNCHANGED <<rule_source, run, first_run, config, sleep_time, store,
                   sigma_rules, tags_applied, sigma_rule_counter,
                   problem_strings, output, rule_idx, attempt, sleeps, log,
                   views>>

\* ------------------------------------------------------ run(): lines 112-122
RECURSIVE Sum(_)
Sum(f) ==
    IF f = <<>> THEN 0 ELSE f[Len(f)] + Sum(SubSeq(f, 1, Len(f) - 1))

\* Summary with the bug of listing the problem strings last first.
Summary_LastFirst(total, problems) ==
    <<<<"Applied", total, "tags">>>>
    \o (IF Len(problems) > 0
        THEN <<<<"Problematic rules:">>>>
             \o [i \in 1..Len(problems) |->
                    <<"*", problems[Len(problems) + 1 - i]>>]
        ELSE <<>>)

\* The lines of the summary: 'Applied N tags', then 'Problematic rules:'
\* and a bullet for every problem string.
Summary(total, problems) ==
    <<<<"Applied", total, "tags">>>>
    \o (IF Len(problems) > 0
        THEN <<<<"Problematic rules:">>>>
             \o [i \in 1..Len(problems) |-> <<"*", problems[i]>>]
        ELSE <<>>)

\* Finalize with the bug of giving add_sigma_match_view the total of the
\* counts, not the number of rules.
Finalize_ViewGetsTotal ==
    /\ pc = "loop"
    /\ ~sigma_rules.is_none
    /\ rule_idx = Len(sigma_rules.list)
    /\ LET total_tagged_events == Sum(tags_applied)
       IN  /\ views' = IF total_tagged_events > 0
                       THEN Append(views, total_tagged_events)
                       ELSE views
           /\ output' = Summary(total_tagged_events, problem_strings)
    /\ pc' = "done"
    /\ UNCHANGED <<rule_source, run, first_run, config, sleep_time, store,
                   sigma_rules, tags_applied, sigma_rule_counter,
                   problem_strings, rule_idx, attempt, events,
                   tagged_events_counter, pending, exc, invocations, sleeps,
                   log>>

\* Lines 112-122: the loop is over; total, the view when the total is
\* positive, and the summary is returned.
Finalize ==
    /\ pc = "loop"
    /\ ~sigma_rules.is_none
    /\ rule_idx = Len(sigma_rules.list)
    /\ LET total_tagged_events == Sum(tags_applied)
       IN  /\ views' = IF total_tagged_events > 0
                       THEN Append(views, sigma_rule_counter)
                       ELSE views
           /\ output' = Summary(total_tagged_events, problem_strings)
    /\ pc' = "done"
    /\ UNCHANGED <<rule_source, run, first_run, config, sleep_time, store,
                   sigma_rules, tags_applied, sigma_rule_counter,
                   problem_strings, rule_idx, attempt, events,
                   tagged_events_counter, pending, exc, invocations, sleeps,
                   log>>

\* The events whose ts_sigma_rule holds the file name of rule i.
MatchedBy(i) ==
    {e \in DOMAIN store :
        sigma_rules.list[i].file_name \in Range(store[e].ts_sigma_rule)}

\* run() is called a second time, after a first call in which no call of
\* run_sigma_rule raised: the rule source returns the same rules (lists of
\* their own), the store is as the first call left it. In such a first
\* call on a store without rule matches, the events a rule matched are
\* those that hold its file name.
RunAgain ==
    /\ pc = "done"
    /\ run = 1
    /\ \A i \in 1..Len(sigma_rules.list) :
         Len(invocations[i]) = 1 /\ invocations[i][1].result = "ok"
    /\ run' = 2
    /\ first_run' = [store |-> store, output |-> output,
                     matched |-> [i \in 1..Len(sigma_rules.list) |->
                                     SetToSeq(MatchedBy(i))]]
    /\ pc' = "start"
    /\ sigma_rules' = RuleList(<<>>)
    /\ tags_applied' = <<>>
    /\ sigma_rule_counter' = 0
    /\ problem_strings' = <<>>
    /\ output' = <<>>
    /\ rule_idx' = 0
    /\ attempt' = 0
    /\ invocations' = <<>>
    /\ sleeps' = <<>>
    /\ log' = <<>>
    /\ views' = <<>>
    /\ UNCHANGED <<rule_source, config, store, events, tagged_events_counter,
                   pending, exc, sleep_time>>

Next ==
    \/ GetRules
    \/ IterateNone
    \/ ForRule
    \/ EventStream
    \/ TagEvent
    \/ Commit
    \/ Return
    \/ ExceptTransportError
    \/ Sleep
    \/ ExceptOther
    \/ ExceptInHandler
    \/ Finalize
    \/ RunAgain

Spec == Init /\ [][Next]_vars

\* ================================================================== claims
Rules == sigma_rules.list
Supplied == rule_source.list
RuleIds == 1..Len(Rules)
Name(i) == Rules[i].file_name

\* run() is over: it returned or an exception left it.
Terminated == pc \in {"done", "raised"}

\* The number of occurrences of x in the sequence s.
Count(s, x) == Cardinality({k \in 1..Len(s) : s[k] = x})

\* The first call of run_sigma_rule for rule i ended with the given result.
FirstResult(i, result) ==
    Len(invocations[i]) >= 1 /\ invocations[i][1].result = result

\* The call in the handler (the retry) for rule i ended with the given result.
RetryResult(i, result) ==
    Len(invocations[i]) = 2 /\ invocations[i][2].result = result

\* C1: for every rule list the rule source returns and every pattern of
\* outcomes of run_sigma_rule, no exception leaves run().
C1_NoFailureEscapes ==
    ~rule_source.is_none => pc # "raised"

\* C2: when run() is over, every rule whose first call raised an exception
\* other than the transport error is in the problem strings exactly once,
\* and run_sigma_rule was called for every later rule of the list.
C2_FatalRuleIsolated ==
    Terminated =>
        \A i \in RuleIds :
            FirstResult(i, "other") =>
                /\ Count(problem_strings, Name(i)) = 1
                /\ \A j \in RuleIds : j > i => Len(invocations[j]) >= 1

\* C3: when the retry of a rule fails, with either class of failure, the
\* rule is not called a third time, it is in the problem strings and the
\* run goes on: no exception leaves run().
C3_FailedRetryIsFatal ==
    \A i \in RuleIds :
        (RetryResult(i, "transport") \/ RetryResult(i, "other")) =>
            /\ Len(invocations[i]) = 2
            /\ pc # "raised"
            /\ Name(i) \in Range(problem_strings)

\* C4: when the rule source returns None or an empty list, run() does not
\* raise: it returns the summary 'Applied 0 tags' with no problem rules,
\* run_sigma_rule and add_sigma_match_view are never called, and the
\* diagnostic of the missing rules has been logged when it got None.
C4_NoRulesEmptySummary ==
    (Terminated /\ (rule_source.is_none \/ Supplied = <<>>)) =>
        /\ pc = "done"
        /\ output = <<<<"Applied", 0, "tags">>>>
        /\ rule_source.is_none => <<"no_rules">> \in Range(log)
        /\ views = <<>>
        /\ \A i \in RuleIds : invocations[i] = <<>>

\* C5: for every rule, run_sigma_rule is called at most twice and the run
\* sleeps at most once for it; a second call happens only after the first
\* one raised the transport error and the run slept, never after another
\* exception and never after a failed retry.
C5_AtMostOneRetry ==
    \A i \in RuleIds :
        /\ Len(invocations[i]) <= 2
        /\ sleeps[i] <= 1
        /\ Len(invocations[i]) = 2 =>
               /\ invocations[i][1].result = "transport"
               /\ sleeps[i] = 1
        /\ (Len(invocations[i]) >= 1 /\ invocations[i][1].result = "other") =>
               /\ Len(invocations[i]) = 1
               /\ sleeps[i] = 0

\* C5 happens: the run is over, and a rule was called a second time after
\* a transport error while another rule failed with another exception.
C5_Witness ==
    /\ pc = "done"
    /\ \E i \in RuleIds : Len(invocations[i]) = 2 /\ sleeps[i] = 1
    /\ \E j \in RuleIds : FirstResult(j, "other")

\* C6: for a rule whose first call raised the transport error after
\* committing k events and whose retry returned n, the recorded count is n
\* (not k + n), the run slept once for it and the rule is not in the
\* problem strings.
C6_RetryCountIsRetrys ==
    \A i \in RuleIds :
        (FirstResult(i, "transport") /\ RetryResult(i, "ok")) =>
            /\ tags_applied[Name(i)] = invocations[i][2].commits
            /\ sleeps[i] = 1
            /\ Name(i) \notin Range(problem_strings)

\* C6 happens: run() returned, and a rule committed an event in the call
\* that raised the transport error and an event in the retry that returned.
C6_Witness ==
    /\ pc = "done"
    /\ \E i \in RuleIds :
        /\ FirstResult(i, "transport")
        /\ RetryResult(i, "ok")
        /\ invocations[i][1].commits >= 1
        /\ invocations[i][2].commits >= 1

\* The technique tags of a tag list: those with the prefix attack. or car.
TechniqueTags(tag_list) == {t \in Range(tag_list) : IsTechnique(t)}
OrdinaryTags(tag_list) == {t \in Range(tag_list) : ~IsTechnique(t)}

\* C7: for every matched event, no tag with the prefix attack. or car. is
\* in the list given to add_tags, and the tags given to add_tags and the
\* tags written to ts_ttp are disjoint.
C7_NoTechniqueTagAdded ==
    pc = "commit" =>
        /\ \A k \in 1..Len(pending.add_tags) : ~IsTechnique(pending.add_tags[k])
        /\ Range(pending.add_tags) \cap Range(pending.ts_ttp) = {}

\* C8: for a rule whose supplied tag list mixes technique tags and ordinary
\* tags, every event it tags (the first and the later ones, in the first
\* call and in the retry) has as ts_ttp, once tagged, the union of the
\* ts_ttp it had and all technique tags of the rule's tag list.
C8_TechniqueTagsAreUnion ==
    (/\ pc = "commit"
     /\ TechniqueTags(Supplied[rule_idx].tags) # {}
     /\ OrdinaryTags(Supplied[rule_idx].tags) # {}) =>
        Range(CommitEvent(store[pending.event], pending).ts_ttp)
            = Range(store[pending.event].ts_ttp)
              \cup TechniqueTags(Supplied[rule_idx].tags)

\* C9: the run leaves every rule unchanged: at every moment of the run the
\* tag list of every rule is the sequence the rule source supplied.
C9_RulesUnchanged ==
    pc # "start" => \A i \in RuleIds : Rules[i].tags = Supplied[i].tags

\* The events rule i has tagged and committed: the store started without
\* rule matches and the file names are unique.
EventsTaggedBy(i) ==
    {e \in DOMAIN store : Name(i) \in Range(store[e].ts_sigma_rule)}

\* C10 as claimed: when run() returns, every rule has one count, equal to
\* the number of events the rule matched, tagged and committed in the run.
C10_CountIsEventsTagged ==
    pc = "done" =>
        /\ DOMAIN tags_applied = {Name(i) : i \in RuleIds}
        /\ \A i \in RuleIds :
               tags_applied[Name(i)] = Cardinality(EventsTaggedBy(i))

\* C10 as amended: when run() returns, every rule has one count, equal to
\* the number of events committed by the call of run_sigma_rule that
\* returned for it (the first call or the retry), and 0 when its call
\* raised, however many events that call had committed.
C10_CountIsReturnedCount ==
    pc = "done" =>
        /\ DOMAIN tags_applied = {Name(i) : i \in RuleIds}
        /\ \A i \in RuleIds :
               LET last == invocations[i][Len(invocations[i])]
               IN  tags_applied[Name(i)] =
                       IF last.result = "ok" THEN last.commits ELSE 0

\* C10 happens: run() returned, one rule failed after committing an event
\* and has count 0, another returned after tagging an event.
C10_Witness ==
    /\ pc = "done"
    /\ \E i \in RuleIds :
        /\ FirstResult(i, "other")
        /\ invocations[i][1].commits >= 1
        /\ tags_applied[Name(i)] = 0
    /\ \E j \in RuleIds :
        /\ invocations[j][Len(invocations[j])].result = "ok"
        /\ tags_applied[Name(j)] >= 1

\* C11: the ts_sigma_rule and ts_ttp values written to an event hold no
\* value twice and hold every value the event held before the write: over
\* any sequence of calls, of one run or of two, the two attributes of an
\* event never lose a value.
NeverShrinks(e) ==
    /\ Range(store[e].ts_sigma_rule) \subseteq Range(store'[e].ts_sigma_rule)
    /\ Range(store[e].ts_ttp) \subseteq Range(store'[e].ts_ttp)
    /\ NoDup(store'[e].ts_sigma_rule)
    /\ NoDup(store'[e].ts_ttp)

C11_WritesNeverShrink == [][\A e \in DOMAIN store : NeverShrinks(e)]_vars

\* An event that two rules matched, the second with a technique tag the
\* event already held: both writes had values to keep.
C11_Witness ==
    \E e \in DOMAIN store :
        /\ Len(store[e].ts_sigma_rule) = 2
        /\ store[e].ts_ttp = <<TagAttack>>
        /\ Supplied[1].tags = <<TagAttack>>
        /\ Supplied[2].tags = <<TagAttack>>
        /\ pc = "done"

\* The rules whose call of run_sigma_rule raised an exception other than
\* the transport error.
FatalIds == {i \in RuleIds : FirstResult(i, "other")}

\* C12: the summary run() returns is the line 'Applied N tags' with N the
\* sum of the counts of the rules, followed, if and only if a rule failed
\* fatally, by the line 'Problematic rules:' and one line '* name' for every
\* rule that failed fatally, in the order of the rule list.
C12_SummaryLines ==
    pc = "done" =>
        /\ Len(output) = IF FatalIds = {} THEN 1 ELSE 2 + Cardinality(FatalIds)
        /\ output[1] = <<"Applied", Sum(tags_applied), "tags">>
        /\ FatalIds # {} => output[2] = <<"Problematic rules:">>
        /\ \A i \in FatalIds :
               output[2 + Cardinality({j \in FatalIds : j <= i})]
                   = <<"*", Name(i)>>

\* Three rules: the first matched and committed two events, the second
\* matched none, the call for the third raised at once; the summary is
\* 'Applied 2 tags', 'Problematic rules:', '* 3'.
C12_Witness ==
    /\ pc = "done"
    /\ Len(Rules) = 3
    /\ invocations[1] = <<[result |-> "ok", commits |-> 2]>>
    /\ invocations[2] = <<[result |-> "ok", commits |-> 0]>>
    /\ invocations[3] = <<[result |-> "other", commits |-> 0]>>
    /\ output = <<<<"Applied", 2, "tags">>, <<"Problematic rules:">>,
                  <<"*", Name(3)>>>>

\* The commits of the last call of run_sigma_rule for rule i if it
\* returned, 0 if it raised.
ReturnedCommits(i) ==
    IF invocations[i][Len(invocations[i])].result = "ok"
    THEN invocations[i][Len(invocations[i])].commits
    ELSE 0

NoFailure ==
    \A i \in RuleIds : invocations[i] = <<[result |-> "ok",
                                           commits |-> ReturnedCommits(i)]>>

\* The values of the lists s and t are the same, as many times each.
SameValues(s, t) == Range(s) = Range(t) /\ Len(s) = Len(t)

\* C14: when run() has returned a second time, on the store as the first
\* run left it, with the same rules matching the same events and no call
\* raising in either run, every event has the ts_sigma_rule, ts_ttp and tag
\* values it had after the first run, and the counts and the summary of
\* the second run are those of its own calls.
C14_SecondRunChangesNothing ==
    (run = 2 /\ pc = "done" /\ NoFailure) =>
        /\ DOMAIN store = DOMAIN first_run.store
        /\ \A e \in DOMAIN store :
               /\ SameValues(store[e].ts_sigma_rule,
                             first_run.store[e].ts_sigma_rule)
               /\ SameValues(store[e].ts_ttp, first_run.store[e].ts_ttp)
               /\ SameValues(store[e].tag, first_run.store[e].tag)
        /\ \A i \in RuleIds :
               tags_applied[Name(i)] = Len(first_run.matched[i])
        /\ output = first_run.output

\* A second run has returned; an event holds two rule names, a technique
\* tag and an ordinary tag, and each run counted two events.
C14_Witness ==
    /\ run = 2
    /\ pc = "done"
    /\ NoFailure
    /\ output = <<<<"Applied", 2, "tags">>>>
    /\ \E e \in DOMAIN store :
           /\ Len(store[e].ts_sigma_rule) = 2
           /\ store[e].ts_ttp # <<>>
           /\ store[e].tag # <<>>

\* C15: a commit for a rule leaves its event with the file name of the rule
\* and with every rule name the event held, so that an event matched by
\* several rules holds the names of all of them; and with every tag it was
\* given present exactly once, whichever rules had added the tag before.
C15_AllMatchingRulesKept ==
    [][(pc = "commit" /\ pc' = "stream") =>
         LET e == pending.event IN
           /\ Name(rule_idx) \in Range(store'[e].ts_sigma_rule)
           /\ Range(store[e].ts_sigma_rule)
                  \subseteq Range(store'[e].ts_sigma_rule)
           /\ Range(store[e].tag) \cup Range(pending.add_tags)
                  = Range(store'[e].tag)
           /\ NoDup(store'[e].tag)]_vars

\* An event matched by two rules that each add the same ordinary tag: it
\* holds both rule names and the tag once.
C15_Witness ==
    /\ Len(Rules) = 2
    /\ Supplied[1].tags = <<TagSusp>>
    /\ Supplied[2].tags = <<TagSusp>>
    /\ \E e \in DOMAIN store :
           /\ Range(store[e].ts_sigma_rule) = {Name(1), Name(2)}
           /\ store[e].tag = <<TagSusp>>

\* Rule j has had a call of run_sigma_rule in this run.
Started(j) == invocations[j] # <<>>

\* Rule i is done with: its calls have ended, and a first call that ended
\* with the transport error has had its sleep and its retry.
Over(i) ==
    /\ Started(i)
    /\ \A k \in 1..Len(invocations[i]) : invocations[i][k].result # "running"
    /\ invocations[i][1].result = "transport" =>
           sleeps[i] = 1 /\ Len(invocations[i]) = 2

\* The rules that have started are the rules up to the current one, and
\* all of them but the current one are done with.
InSourceOrder ==
    \A j \in DOMAIN invocations :
        Started(j) => /\ j <= rule_idx
                      /\ \A i \in 1..(j - 1) : Over(i)

\* A step that starts or ends a call, counts a commit, sleeps or writes to
\* the store does so for the current rule, the last one to have started.
ForCurrentRule ==
    /\ \A i \in DOMAIN invocations \cap DOMAIN invocations' :
           (invocations'[i] # invocations[i] \/ sleeps'[i] # sleeps[i]) =>
               /\ i = rule_idx'
               /\ \A j \in DOMAIN invocations' : j > i => ~Started(j)'
    /\ store' # store =>
           invocations'[rule_idx][Len(invocations[rule_idx])].commits
               = invocations[rule_idx][Len(invocations[rule_idx])].commits + 1

\* C16: the rules are processed in the order of the list and one at a
\* time: every call of run_sigma_rule for a rule, its sleep and retry
\* included, and every commit of these calls, comes before the first call
\* for the next rule.
C16_RulesInSourceOrder == [][InSourceOrder' /\ ForCurrentRule]_vars

\* The second rule is in its call, after the first rule failed with the
\* transport error, slept, and committed an event in its retry.
C16_Witness ==
    /\ Len(Rules) >= 2
    /\ invocations[1] = <<[result |-> "transport", commits |-> 0],
                          [result |-> "ok", commits |-> 1]>>
    /\ sleeps[1] = 1
    /\ rule_idx = 2
    /\ pc = "commit"

\* The cooldown the configuration asks for: the value of SIGMA_TAG_DELAY, or
\* 15 seconds when the key is not set.
Cooldown ==
    IF "SIGMA_TAG_DELAY" \in DOMAIN config
    THEN config["SIGMA_TAG_DELAY"]
    ELSE DefaultDelay

\* The step to the sleep: the first call for the current rule has just
\* ended with the transport error, and the time is the cooldown read now.
FailureThenSleep ==
    pc' = "sleep" =>
        /\ attempt = 1
        /\ rule_idx' = rule_idx
        /\ invocations[rule_idx]
               = <<[result |-> "running",
                    commits |-> invocations[rule_idx][1].commits]>>
        /\ invocations'[rule_idx]
               = <<[result |-> "transport",
                    commits |-> invocations[rule_idx][1].commits]>>
        /\ sleep_time' = Cooldown'

\* The step from the sleep: the sleep is over and run_sigma_rule is called
\* again for the same rule; nothing else happened to the rules, the store
\* or the counts.
SleepThenRetry ==
    pc = "sleep" =>
        /\ pc' = "call"
        /\ attempt' = 2
        /\ rule_idx' = rule_idx
        /\ sleeps' = [sleeps EXCEPT ![rule_idx] = sleeps[rule_idx] + 1]
        /\ invocations' = [invocations EXCEPT ![rule_idx] =
                              Append(@, [result |-> "running", commits |-> 0])]
        /\ Rules'[rule_idx] = Rules[rule_idx]
        /\ UNCHANGED <<store, tags_applied, sigma_rule_counter,
                       problem_strings>>

\* C17: when the first call of run_sigma_rule for a rule raises the
\* transport error, run() sleeps for the cooldown of the configuration as
\* read then (SIGMA_TAG_DELAY, 15 when not set) and then calls
\* run_sigma_rule again for the same rule; the sleep is between the failure
\* and the retry, and no other rule is run in between.
C17_SleepThenRetrySameRule == [][FailureThenSleep /\ SleepThenRetry]_vars

\* The retry for the first of two rules has been called after the sleep;
\* the failed call had committed an event.
C17_Witness ==
    /\ Len(Rules) = 2
    /\ rule_idx = 1
    /\ pc = "call"
    /\ attempt = 2
    /\ sleeps[1] = 1
    /\ invocations[1] = <<[result |-> "transport", commits |-> 1],
                          [result |-> "running", commits |-> 0]>>

\* The commits of the call of run_sigma_rule that is running.
RunningCommits == invocations[rule_idx][Len(invocations[rule_idx])].commits

\* The next event of the stream is taken and its attributes and tags are
\* set: nothing is written or counted.
EventTaken ==
    (pc = "stream" /\ pc' = "commit") =>
        /\ pending'.event = Head(events)
        /\ events' = Tail(events)
        /\ UNCHANGED <<store, tagged_events_counter, invocations>>

\* The one commit of the event taken: all that was set on it is written,
\* to this event alone, and the event is counted.
EventCommitted ==
    (pc = "commit" /\ pc' = "stream") =>
        LET e == pending.event IN
          /\ \A o \in DOMAIN store \ {e} : store'[o] = store[o]
          /\ store'[e].ts_sigma_rule = pending.ts_sigma_rule
          /\ pending.set_ttp => store'[e].ts_ttp = pending.ts_ttp
          /\ ~pending.set_ttp => store'[e].ts_ttp = store[e].ts_ttp
          /\ Range(pending.add_tags) \subseteq Range(store'[e].tag)
          /\ RunningCommits' = RunningCommits + 1
          /\ tagged_events_counter' = tagged_events_counter + 1
          /\ events' = events

\* A call raises with an event taken and not committed: nothing of the
\* event is written, and the event is not counted.
EventDropped ==
    (pc = "commit" /\ pc' # "stream") =>
        /\ store' = store
        /\ tagged_events_counter' = 0
        /\ tags_applied' = tags_applied
        /\ invocations'[rule_idx][Len(invocations[rule_idx])].commits
               = RunningCommits

\* The store is written and an event is counted in a commit only.
OnlyInCommit ==
    (store' # store \/ tagged_events_counter' > tagged_events_counter) =>
        (pc = "commit" /\ pc' = "stream" /\ pending # NoPending)

\* C18: for every event of the stream, a call of run_sigma_rule commits
\* once, after all add_attributes and add_tags calls for the event, and
\* counts the event with the commit; an event for which the call raises
\* before the commit has nothing written and is not counted.
C18_OneCommitPerEvent ==
    [][EventTaken /\ EventCommitted /\ EventDropped /\ OnlyInCommit]_vars

\* The call has committed and counted the first event of its stream and
\* has set the attributes of the second, which the store does not hold.
C18_Witness ==
    /\ pc = "commit"
    /\ tagged_events_counter = 1
    /\ RunningCommits = 1
    /\ pending.event = 2
    /\ Name(rule_idx) \in Range(store[1].ts_sigma_rule)
    /\ Name(rule_idx) \in Range(pending.ts_sigma_rule)
    /\ store[2] = EmptySource

\* The commits of the calls that returned, of the rules 1 to n.
RECURSIVE SumReturned(_)
SumReturned(n) ==
    IF n = 0 THEN 0 ELSE ReturnedCommits(n) + SumReturned(n - 1)

\* C19: when run() returns, every rule of the problem strings has count 0,
\* however many events its failed call committed: what the failed call had
\* counted is in no count and not in the total of the summary, and the
\* events it committed still hold the name of the rule.
C19_ProblemRuleCountsZero ==
    pc = "done" =>
        /\ \A i \in RuleIds :
               Name(i) \in Range(problem_strings) =>
                   /\ tags_applied[Name(i)] = 0
                   /\ Cardinality(EventsTaggedBy(i))
                          >= invocations[i][1].commits
        /\ output[1] = <<"Applied", SumReturned(Len(Rules)), "tags">>

\* The only rule of the run failed fatally after committing two events:
\* the summary is 'Applied 0 tags' and both events hold the rule's name.
C19_Witness ==
    /\ pc = "done"
    /\ Len(Rules) = 1
    /\ problem_strings = <<Name(1)>>
    /\ invocations[1] = <<[result |-> "other", commits |-> 2]>>
    /\ tags_applied[Name(1)] = 0
    /\ output[1] = <<"Applied", 0, "tags">>
    /\ EventsTaggedBy(1) = {1, 2}
    /\ views = <<>>

====
